---------------------------- MODULE Spec2Model ----------------------------
(***************************************************************************)
(* dns-notes: the client's vuex store (app/src/store.js), the bootstrap    *)
(* action loadAllNotes, and the retry protocol of the store's actions.     *)
(*                                                                         *)
(* Five specifications share the variables below:                          *)
(*   Spec       the notes store: loadAllNotes calls, the local newNote and *)
(*              deleteNote actions, and a process stop (the store is       *)
(*              persisted by vuex-persistedstate);                         *)
(*   SpecApply  the event applier: an ordered event list folded twice into *)
(*              a notes collection;                                        *)
(*   SpecRetry  one dispatched store action and its confirm()-driven       *)
(*              retries;                                                   *)
(*   SpecRoute  the router's beforeEach guard AuthChecker;                 *)
(*   SpecOrg    the server's POST /org/create requests.                    *)
(***************************************************************************)
EXTENDS Integers, Sequences, FiniteSets, TLC

VARIABLES
    notes,          \* state.notes: note id -> note (store.js 165-186)
    lastSync,       \* state.lastSync, written by commit("setLastSync", ..)
    calls,          \* the loadAllNotes invocations in progress
    committedTimes, \* history: res.time of every response whose notes were committed
    replay,         \* history: a sync cycle cut between its two commits, and its re-run
    applier,        \* SpecApply: the fold of an event list over a collection
    op,             \* SpecRetry: the dispatched action and its current attempt
    appointmentID,  \* state.appointmentID, set by book
    serverTime,     \* the API server's clock, the source of res.time
    currentUser,    \* auth.currentUser: whether a user is logged in
    org,            \* store.state.org: whether the user belongs to an organization
    nav,            \* SpecRoute: the navigation the router is resolving
    orgs,           \* SpecOrg: the records of the orgs collection, as added
    userClaims,     \* SpecOrg: each user's custom claims
    pendingClaims,  \* SpecOrg: the setClaims calls that have not finished
    reqs            \* SpecOrg: the POST /org/create requests being served

storeVars == <<notes, lastSync, calls, committedTimes, replay, serverTime>>
retryVars == <<op, appointmentID>>
routeVars == <<currentUser, org, nav>>
orgVars == <<orgs, userClaims, pendingClaims, reqs>>
vars == <<notes, lastSync, calls, committedTimes, replay, applier, op,
          appointmentID, serverTime, currentUser, org, nav, orgs, userClaims,
          pendingClaims, reqs>>

----------------------------------------------------------------------------
(* Notes and collections *)

\* The ids of the two notes the store is constructed with.
NoteIDs == {"sldgjldskjglsd", "rwihfnldbxf"}

\* The fields of a note that an event can change, and the values they take.
Values == {"", "1.2.3.4"}
Annotations == {"Domain verification for Emails", "SPF"}

Note == [id : NoteIDs, value : Values, note : Annotations]

\* A notes collection is a JS object keyed by note id.
Collections ==
    UNION {{c \in [S -> Note] : \A k \in S : c[k].id = k} : S \in SUBSET NoteIDs}

EmptyNotes == [k \in {} |-> k]

\* state() of the store: the two UI testing notes.
InitialNotes ==
    [k \in NoteIDs |->
        [id |-> k, value |-> "", note |-> "Domain verification for Emails"]]

\* A state key that was never set reads as undefined; server times are 1, 2, ...
Undefined == 0

\* Largest server timestamp a response carries.
MaxTime == 2

Times == 1 .. MaxTime

----------------------------------------------------------------------------
(* Mutations of the store *)

\* A variant of addNewNote that keeps an entry that is already there.
addNewNoteIfAbsent(ns, note) ==
    IF note.id \in DOMAIN ns
    THEN ns
    ELSE [k \in DOMAIN ns \cup {note.id} |-> IF k = note.id THEN note ELSE ns[k]]

\* addNewNote: (state, note) => (state.notes[note.id] = note)
addNewNote(ns, note) ==
    [k \in DOMAIN ns \cup {note.id} |-> IF k = note.id THEN note ELSE ns[k]]

\* A variant of deleteNote that resets the whole collection.
deleteNoteClearsAll(ns, noteID) ==
    IF noteID \in DOMAIN ns THEN EmptyNotes ELSE ns

\* deleteNote: (state, noteID) => delete state.notes[noteID]
deleteNote(ns, noteID) ==
    [k \in DOMAIN ns \ {noteID} |-> ns[k]]

\* A variant of setNotes in which an incoming id that is already present
\* removes the entry instead of overwriting it.
setNotesToggle(ns, new) ==
    [k \in (DOMAIN ns \cup DOMAIN new) \ (DOMAIN ns \cap DOMAIN new) |->
        IF k \in DOMAIN new THEN new[k] ELSE ns[k]]

\* setNotes: (state, notes) => (state.notes = { ...state.notes, ...notes })
setNotes(ns, new) ==
    [k \in DOMAIN ns \cup DOMAIN new |-> IF k \in DOMAIN new THEN new[k] ELSE ns[k]]

\* setLastSync: the checkpoint mutation loadAllNotes commits.
setLastSync(ls, time) == time

----------------------------------------------------------------------------
(* loadAllNotes *)

\* The responses of GET /note/all/:org.  A failure response carries no notes
\* and no time: both read as undefined, and spreading undefined adds nothing.
OkResponses ==
    [ok : {TRUE}, notes : Collections, time : Times, error : {""}]
FailResponse ==
    [ok |-> FALSE, notes |-> EmptyNotes, time |-> Undefined, error |-> "error"]
Responses == OkResponses \cup {FailResponse}

NoRes == [ok |-> FALSE, notes |-> EmptyNotes, time |-> Undefined, error |-> ""]

Calls == {"c1", "c2"}

IdleCall == [pc |-> "idle", res |-> NoRes, step |-> 0, sent |-> Undefined]

\* A variant of loadAllNotesThrows without the check of res.ok.
loadAllNotesNeverThrows(res) == FALSE

\* if (!res.ok) throw new Error(res.error);
loadAllNotesThrows(res) == ~res.ok

\* A variant of loadAllNotesCommits that advances the checkpoint first.
loadAllNotesCommitsSwapped == <<"setLastSync", "setNotes">>

\* The commits of loadAllNotes after the check, in program order.
loadAllNotesCommits == <<"setNotes", "setLastSync">>

\* JS runs a resumed async function to its next await without interleaving:
\* while a call is between its resumption and its last commit, nothing else runs.
Running == {c \in Calls : calls[c].pc = "running"}

\* stage "interrupted": a call stopped between its commits; expect is the
\* collection its setNotes commit had produced, which is the collection an
\* uninterrupted run ends with, and res its response.
NoReplay == [stage |-> "none", expect |-> EmptyNotes, res |-> NoRes]

\* dispatch("loadAllNotes"): the request is sent and the action awaits it.
Dispatch(c) ==
    /\ Running = {}
    /\ calls[c].pc \in {"idle", "done", "failed"}
    /\ calls' = [calls EXCEPT ![c] =
                    [IdleCall EXCEPT !.pc = "awaiting", !.sent = serverTime]]
    /\ replay' = IF replay.stage = "done" THEN NoReplay ELSE replay
    /\ UNCHANGED <<notes, lastSync, committedTimes, serverTime, applier, retryVars,
                   routeVars, orgVars>>

\* The response arrives and the action resumes: it throws on a failure
\* response, and otherwise goes on to its commits.  The server stamped the
\* response with its clock at some moment between the request and now.
Respond(c) ==
    /\ Running = {}
    /\ calls[c].pc = "awaiting"
    /\ \E res \in Responses :
        /\ res.ok => res.time \in calls[c].sent .. serverTime
        /\ calls' = [calls EXCEPT ![c] =
                        IF loadAllNotesThrows(res)
                        THEN [IdleCall EXCEPT !.pc = "failed", !.res = res]
                        ELSE [IdleCall EXCEPT !.pc = "running", !.res = res]]
        /\ replay' = IF replay.stage = "interrupted" /\ replay.res = res
                     THEN replay ELSE NoReplay
    /\ UNCHANGED <<notes, lastSync, committedTimes, serverTime, applier, retryVars,
                   routeVars, orgVars>>

\* The next commit of the running call.
Commit(c) ==
    /\ calls[c].pc = "running"
    /\ LET k == calls[c].step + 1
           res == calls[c].res
           last == k = Len(loadAllNotesCommits)
       IN /\ IF loadAllNotesCommits[k] = "setNotes"
             THEN /\ notes' = setNotes(notes, res.notes)
                  /\ committedTimes' = committedTimes \cup {res.time}
                  /\ UNCHANGED lastSync
             ELSE /\ lastSync' = setLastSync(lastSync, res.time)
                  /\ UNCHANGED <<notes, committedTimes>>
          /\ calls' = [calls EXCEPT ![c] =
                          IF last
                          THEN [IdleCall EXCEPT !.pc = "done"]
                          ELSE [@ EXCEPT !.step = k]]
          /\ replay' = IF last /\ replay.stage = "interrupted"
                       THEN [replay EXCEPT !.stage = "done"]
                       ELSE replay
    /\ UNCHANGED <<serverTime, applier, retryVars, routeVars, orgVars>>

\* The process stops.  createPersistedState() has written the state to
\* storage at every mutation, so notes and lastSync survive; the calls do not.
Crash ==
    /\ \E c \in Calls : calls[c].pc # "idle"
    /\ calls' = [c \in Calls |-> IdleCall]
    /\ replay' =
        IF \E c \in Running : calls[c].step = 1 /\ loadAllNotesCommits[1] = "setNotes"
        THEN LET c == CHOOSE x \in Running : TRUE
             IN [stage |-> "interrupted", expect |-> notes, res |-> calls[c].res]
        ELSE NoReplay
    /\ UNCHANGED <<notes, lastSync, committedTimes, serverTime, applier, retryVars,
                   routeVars, orgVars>>

\* The server's clock advances.
Tick ==
    /\ Running = {}
    /\ serverTime < MaxTime
    /\ serverTime' = serverTime + 1
    /\ UNCHANGED <<notes, lastSync, calls, committedTimes, replay, applier,
                   retryVars, routeVars, orgVars>>

\* newNote: return commit("addNewNote", note);
newNote(note) ==
    /\ Running = {}
    /\ notes' = addNewNote(notes, note)
    /\ replay' = NoReplay
    /\ UNCHANGED <<lastSync, calls, committedTimes, serverTime, applier, retryVars,
                   routeVars, orgVars>>

\* deleteNote (action): return commit("deleteNote", noteID);
deleteNoteAction(noteID) ==
    /\ Running = {}
    /\ notes' = deleteNote(notes, noteID)
    /\ replay' = NoReplay
    /\ UNCHANGED <<lastSync, calls, committedTimes, serverTime, applier, retryVars,
                   routeVars, orgVars>>

\* No event list is being folded.
IdleApplier ==
    [stage |-> "off", c0 |-> EmptyNotes, events |-> <<>>, idx |-> 1,
     cur |-> EmptyNotes, once |-> EmptyNotes]

\* The server's users, by uid, and the requests it serves at a time.
Users == {"u1", "u2"}
Requests == {"r1", "r2"}

\* A user without custom claims: token.org is undefined.
NoClaims == [org |-> "", admin |-> FALSE]

\* No request is being served.
IdleRequest == [pc |-> "idle", uid |-> "", org |-> "", status |-> 0]

\* A location's query: the tag the user put in the URL ("" for none) and the
\* redirect parameter the guard adds (NoRedirect for none).
NoRedirect == [path |-> "", tag |-> ""]
NoQuery == [tag |-> "", redirect |-> NoRedirect]
NoTarget == [name |-> "", path |-> "", query |-> NoQuery]

\* No navigation is being resolved.
IdleNav ==
    [status |-> "off", to |-> NoTarget, requested |-> NoTarget, hops |-> 0,
     nexts |-> 0, seen |-> {}]

\* No action is dispatched.  An action's record counts its attempts, its
\* failed attempts, its prompts and the requests it has outstanding, and keeps
\* what the last response was.
IdleOp ==
    [pc |-> "idle", name |-> "none", arg |-> Undefined, curArg |-> Undefined,
     attempts |-> 0, failures |-> 0, prompts |-> 0, result |-> "none",
     requests |-> 0, outcome |-> "none"]

Init ==
    /\ notes = InitialNotes
    /\ lastSync = Undefined
    /\ calls = [c \in Calls |-> IdleCall]
    /\ committedTimes = {}
    /\ replay = NoReplay
    /\ applier = IdleApplier
    /\ op = IdleOp
    /\ appointmentID = Undefined
    /\ serverTime = 1
    /\ currentUser = FALSE
    /\ org = FALSE
    /\ nav = IdleNav
    /\ orgs = <<>>
    /\ userClaims = [u \in Users |-> NoClaims]
    /\ pendingClaims = {}
    /\ reqs = [r \in Requests |-> IdleRequest]

Next ==
    \/ \E c \in Calls : Dispatch(c)
    \/ \E c \in Calls : Respond(c)
    \/ \E c \in Calls : Commit(c)
    \/ Crash
    \/ Tick
    \/ \E note \in Note : newNote(note)
    \/ \E noteID \in NoteIDs : deleteNoteAction(noteID)

Spec == Init /\ [][Next]_vars

----------------------------------------------------------------------------
(* The event applier (SpecApply) *)

\* The fields an Edit's patch may carry, each with the values it may take.
PatchFields == {"value", "note"}
FieldValues(f) == IF f = "value" THEN Values ELSE Annotations

Patches ==
    UNION {{p \in [F -> Values \cup Annotations] : \A f \in F : p[f] \in FieldValues(f)}
           : F \in SUBSET PatchFields}

\* The four event variants (AddEvent, DelEvent, EditEvent, SyncEvent).
AddEvents == [type : {"add"}, note : Note]
DelEvents == [type : {"del"}, id : NoteIDs]
EditEvents == [type : {"edit"}, id : NoteIDs, patch : Patches]
SyncEvents == [type : {"sync"}, time : Times]
Events == AddEvents \cup DelEvents \cup EditEvents \cup SyncEvents

\* Longest event list that is folded.
MaxEvents == 2

EventLists == UNION {[1 .. n -> Events] : n \in 0 .. MaxEvents}

\* A variant of applyEdit that creates the record when the id is absent.
applyEditUpsert(c, id, patch) ==
    IF id \in DOMAIN c
    THEN [c EXCEPT ![id] =
            [f \in DOMAIN @ |-> IF f \in DOMAIN patch THEN patch[f] ELSE @[f]]]
    ELSE [k \in DOMAIN c \cup {id} |->
            IF k = id
            THEN [id |-> id,
                  value |-> IF "value" \in DOMAIN patch THEN patch.value ELSE "",
                  note |-> IF "note" \in DOMAIN patch THEN patch.note
                           ELSE "Domain verification for Emails"]
            ELSE c[k]]

\* Edit(id, patch): merge the patch fields into the record if it is present;
\* editing an absent id is a no-op.
applyEdit(c, id, patch) ==
    IF id \in DOMAIN c
    THEN [c EXCEPT ![id] =
            [f \in DOMAIN @ |-> IF f \in DOMAIN patch THEN patch[f] ELSE @[f]]]
    ELSE c

\* apply(collection, event): Add and Delete are the store's mutations.
applyEvent(c, e) ==
    CASE e.type = "add" -> addNewNote(c, e.note)
      [] e.type = "del" -> deleteNote(c, e.id)
      [] e.type = "edit" -> applyEdit(c, e.id, e.patch)
      [] e.type = "sync" -> c

InitApply ==
    /\ notes = InitialNotes
    /\ lastSync = Undefined
    /\ calls = [c \in Calls |-> IdleCall]
    /\ committedTimes = {}
    /\ replay = NoReplay
    /\ op = IdleOp
    /\ appointmentID = Undefined
    /\ serverTime = 1
    /\ currentUser = FALSE
    /\ org = FALSE
    /\ nav = IdleNav
    /\ orgs = <<>>
    /\ userClaims = [u \in Users |-> NoClaims]
    /\ pendingClaims = {}
    /\ reqs = [r \in Requests |-> IdleRequest]
    /\ \E c \in Collections, es \in EventLists :
        applier = [stage |-> "first", c0 |-> c, events |-> es, idx |-> 1,
                   cur |-> c, once |-> c]

\* The event the fold is at.
CurrentEvent == applier.events[applier.idx]

Folding ==
    /\ applier.stage \in {"first", "second"}
    /\ applier.idx <= Len(applier.events)

ApplyStep(type) ==
    /\ Folding
    /\ CurrentEvent.type = type
    /\ applier' = [applier EXCEPT !.cur = applyEvent(applier.cur, CurrentEvent),
                                  !.idx = @ + 1]
    /\ UNCHANGED <<storeVars, retryVars, routeVars, orgVars>>

ApplyAdd == ApplyStep("add")
ApplyDelete == ApplyStep("del")
ApplyEdit == ApplyStep("edit")
ApplySync == ApplyStep("sync")

\* The list has been applied once: its result is kept and the same list is
\* applied to it again.
ApplyAgain ==
    /\ applier.stage = "first"
    /\ applier.idx > Len(applier.events)
    /\ applier' = [applier EXCEPT !.stage = "second", !.once = applier.cur, !.idx = 1]
    /\ UNCHANGED <<storeVars, retryVars, routeVars, orgVars>>

ApplyDone ==
    /\ applier.stage = "second"
    /\ applier.idx > Len(applier.events)
    /\ applier' = [applier EXCEPT !.stage = "done"]
    /\ UNCHANGED <<storeVars, retryVars, routeVars, orgVars>>

NextApply ==
    \/ ApplyAdd
    \/ ApplyDelete
    \/ ApplyEdit
    \/ ApplySync
    \/ ApplyAgain
    \/ ApplyDone

SpecApply == InitApply /\ [][NextApply]_vars

----------------------------------------------------------------------------
(* Store actions, their API calls and their retries (SpecRetry) *)

\* The actions whose body reaches a remote call.
RemoteOps == {"loadDates", "book", "reschedule", "cancel"}

\* The actions that change the notes on the user's behalf.
LocalOps == {"newNote", "deleteNote"}

\* A variant of returnsAtFirstStatement without the early returns, so that
\* newNote and deleteNote go on to the API call that follows them.
returnsAtFirstStatementNever(name) == FALSE

\* newNote and deleteNote return at their first statement,
\* `return commit(..)`, before the API call they still contain.
returnsAtFirstStatement(name) == name \in {"newNote", "deleteNote"}

AppointmentIDs == {101, 102}

\* The argument a dispatch carries: after, appointmentID, note, noteID, or
\* none.
OpArgs(name) ==
    CASE name = "loadDates" -> {Undefined} \cup Times
      [] name = "cancel" -> AppointmentIDs
      [] name = "newNote" -> Note
      [] name = "deleteNote" -> NoteIDs
      [] OTHER -> {Undefined}

\* Most attempts one dispatched action makes.
MaxAttempts == 3

\* Longest res.notes array a loadDates response carries.
MaxLoaded == 1

NoteArrays == UNION {[1 .. n -> Note] : n \in 0 .. MaxLoaded}

\* The keys of a JS array, which { ...array } copies as own properties.
IndexKeys == <<"0", "1", "2">>

ArrayAsObject(arr) ==
    [k \in {IndexKeys[i] : i \in 1 .. Len(arr)} |->
        arr[CHOOSE i \in 1 .. Len(arr) : IndexKeys[i] = k]]

\* Which actions wrap their remote call in try { } catch (error) { }.
catchesThrow(name) == name \in {"book", "reschedule", "newNote", "deleteNote"}

\* A variant of retryArg that re-dispatches without the argument.
retryArgDropped(name, arg) == Undefined

\* The argument of the dispatch in `confirm(..) && dispatch(name, ..)`,
\* given the parameter of the invocation that failed.
retryArg(name, arg) ==
    CASE name = "loadDates" -> arg
      [] name = "cancel" -> arg
      [] name = "deleteNote" -> arg
      [] name = "book" -> Undefined
      [] name = "reschedule" -> Undefined
      [] name = "newNote" -> Undefined

InitRetry ==
    /\ notes = InitialNotes
    /\ lastSync = Undefined
    /\ calls = [c \in Calls |-> IdleCall]
    /\ committedTimes = {}
    /\ replay = NoReplay
    /\ applier = IdleApplier
    /\ op = IdleOp
    /\ appointmentID = Undefined
    /\ serverTime = 1
    /\ currentUser = FALSE
    /\ org = FALSE
    /\ nav = IdleNav
    /\ orgs = <<>>
    /\ userClaims = [u \in Users |-> NoClaims]
    /\ pendingClaims = {}
    /\ reqs = [r \in Requests |-> IdleRequest]

\* dispatch(name, arg): newNote and deleteNote commit their mutation and
\* return; every other action sends its request and awaits the response.
dispatchOp(name, arg) ==
    /\ op.pc = "idle"
    /\ IF returnsAtFirstStatement(name)
       THEN /\ notes' = IF name = "newNote"
                        THEN addNewNote(notes, arg)
                        ELSE deleteNote(notes, arg)
            /\ op' = [IdleOp EXCEPT !.pc = "returned", !.name = name,
                                    !.arg = arg, !.curArg = arg,
                                    !.result = "undefined"]
       ELSE /\ op' = [IdleOp EXCEPT !.pc = "inflight", !.name = name,
                                    !.arg = arg, !.curArg = arg,
                                    !.attempts = 1, !.requests = 1]
            /\ UNCHANGED notes
    /\ UNCHANGED <<lastSync, calls, committedTimes, replay, serverTime, applier,
                   appointmentID, routeVars, orgVars>>

\* The response has arrived and the action returns.
Returned(result, outcome) ==
    [op EXCEPT !.pc = "returned", !.result = result, !.requests = @ - 1,
               !.outcome = outcome]

\* The response has arrived and the action goes on to confirm().
Failed(outcome) ==
    [op EXCEPT !.pc = "prompt", !.failures = @ + 1, !.prompts = @ + 1,
               !.requests = @ - 1, !.outcome = outcome]

\* A variant of loadDatesOk that makes the notes what the response holds,
\* whatever its length.
loadDatesOkResets ==
    /\ op.pc = "inflight"
    /\ op.name = "loadDates"
    /\ \E arr \in NoteArrays :
        /\ notes' = ArrayAsObject(arr)
        /\ op' = Returned("undefined", IF Len(arr) = 0 THEN "empty" ELSE "ok")
    /\ UNCHANGED <<lastSync, calls, committedTimes, replay, serverTime, applier,
                   appointmentID, routeVars, orgVars>>

\* loadDates, ok: an empty array ends with the alert, any other is committed.
loadDatesOk ==
    /\ op.pc = "inflight"
    /\ op.name = "loadDates"
    /\ \E arr \in NoteArrays :
        /\ notes' = IF Len(arr) = 0
                    THEN notes
                    ELSE setNotes(notes, ArrayAsObject(arr))
        /\ op' = Returned("undefined", IF Len(arr) = 0 THEN "empty" ELSE "ok")
    /\ UNCHANGED <<lastSync, calls, committedTimes, replay, serverTime, applier,
                   appointmentID, routeVars, orgVars>>

\* book, ok: commit("setter", ["appointmentID", res.appointmentID]); return true
bookOk ==
    /\ op.pc = "inflight"
    /\ op.name = "book"
    /\ \E id \in AppointmentIDs : appointmentID' = id
    /\ op' = Returned("true", "ok")
    /\ UNCHANGED <<storeVars, applier, routeVars, orgVars>>

\* reschedule and cancel, ok: the action ends without a commit.
rescheduleOk ==
    /\ op.pc = "inflight"
    /\ op.name = "reschedule"
    /\ op' = Returned("undefined", "ok")
    /\ UNCHANGED <<storeVars, applier, appointmentID, routeVars, orgVars>>

cancelOk ==
    /\ op.pc = "inflight"
    /\ op.name = "cancel"
    /\ op' = Returned("undefined", "ok")
    /\ UNCHANGED <<storeVars, applier, appointmentID, routeVars, orgVars>>

\* A failure response: if (!res.ok) return confirm(..) && dispatch(..)
remoteFail ==
    /\ op.pc = "inflight"
    /\ op' = Failed("fail")
    /\ UNCHANGED <<storeVars, applier, appointmentID, routeVars, orgVars>>

\* The call itself throws: the catch block prompts; an action without one
\* ends with the error, its promise rejected.
remoteThrow ==
    /\ op.pc = "inflight"
    /\ op' = IF catchesThrow(op.name)
             THEN Failed("throw")
             ELSE [op EXCEPT !.pc = "rejected", !.failures = @ + 1,
                             !.requests = @ - 1, !.outcome = "throw"]
    /\ UNCHANGED <<storeVars, applier, appointmentID, routeVars, orgVars>>

\* A variant of userRetry that dispatches the action again while its request
\* is still outstanding, without waiting for the failure and the answer.
userRetryEarly ==
    /\ op.pc = "inflight"
    /\ op.attempts < MaxAttempts
    /\ op' = [op EXCEPT !.attempts = @ + 1, !.requests = @ + 1,
                        !.curArg = retryArg(op.name, op.curArg)]
    /\ UNCHANGED <<storeVars, applier, appointmentID, routeVars, orgVars>>

\* confirm() answers true: the action dispatches itself again.
userRetry ==
    /\ op.pc = "prompt"
    /\ op.attempts < MaxAttempts
    /\ op' = [op EXCEPT !.pc = "inflight", !.attempts = @ + 1,
                        !.requests = @ + 1,
                        !.curArg = retryArg(op.name, op.curArg)]
    /\ UNCHANGED <<storeVars, applier, appointmentID, routeVars, orgVars>>

\* A variant of userAbandon that ends the action with an error.
userAbandonRejects ==
    /\ op.pc = "prompt"
    /\ op' = [op EXCEPT !.pc = "rejected"]
    /\ UNCHANGED <<storeVars, applier, appointmentID, routeVars, orgVars>>

\* confirm() answers false: `confirm(..) && dispatch(..)` is false, and the
\* action returns it.
userAbandon ==
    /\ op.pc = "prompt"
    /\ op' = [op EXCEPT !.pc = "returned", !.result = "false"]
    /\ UNCHANGED <<storeVars, applier, appointmentID, routeVars, orgVars>>

\* The caller has the action's outcome; another action may be dispatched.
opSettled ==
    /\ op.pc \in {"returned", "rejected"}
    /\ op' = IdleOp
    /\ UNCHANGED <<storeVars, applier, appointmentID, routeVars, orgVars>>

NextRetry ==
    \/ \E name \in RemoteOps \cup LocalOps :
            \E arg \in OpArgs(name) : dispatchOp(name, arg)
    \/ loadDatesOk
    \/ bookOk
    \/ rescheduleOk
    \/ cancelOk
    \/ remoteFail
    \/ remoteThrow
    \/ userRetry
    \/ userAbandon
    \/ opSettled

SpecRetry == InitRetry /\ [][NextRetry]_vars

----------------------------------------------------------------------------
(* The router's navigation guard (SpecRoute) *)

AuthType == [public |-> 1, public_only |-> 2, private |-> 3]

\* The route table, in the order the router matches it.
routes ==
    << [path |-> "/", name |-> "home", Auth_requirements |-> AuthType.private],
       [path |-> "/create", name |-> "create", Auth_requirements |-> AuthType.private],
       [path |-> "/view", name |-> "view", Auth_requirements |-> AuthType.private],
       [path |-> "/edit/:noteID", name |-> "edit", Auth_requirements |-> AuthType.private],
       [path |-> "/new", name |-> "new-user", Auth_requirements |-> AuthType.private],
       [path |-> "/settings", name |-> "settings", Auth_requirements |-> AuthType.private],
       [path |-> "/invite", name |-> "invite-users", Auth_requirements |-> AuthType.private],
       [path |-> "/login", name |-> "login", Auth_requirements |-> AuthType.public_only],
       [path |-> "/:pathMatch(.*)*", name |-> "404", Auth_requirements |-> AuthType.public] >>

\* The paths a navigation asks for: one per static route, an edit path and
\* two paths that only the catch-all matches.
EditPaths == {"/edit/rwihfnldbxf"}
UnknownPaths == {"/nowhere", "/edit"}
Paths ==
    {routes[i].path : i \in {1, 2, 3, 5, 6, 7, 8}} \cup EditPaths \cup UnknownPaths

Tags == {"", "a"}

\* Whether a route record's pattern matches a path.
matches(route, path) ==
    CASE route.name = "edit" -> path \in EditPaths
      [] route.name = "404" -> TRUE
      [] OTHER -> route.path = path

\* to.matched[0]: the first route record that matches the path.
matched(path) ==
    routes[CHOOSE i \in 1 .. Len(routes) :
              /\ matches(routes[i], path)
              /\ \A j \in 1 .. (i - 1) : ~matches(routes[j], path)]

\* The location a path and a query resolve to.
resolvePath(path, query) ==
    [name |-> matched(path).name, path |-> path, query |-> query]

\* The location a route name and a query resolve to; the guard names only
\* routes without parameters.
resolveName(name, query) ==
    LET r == routes[CHOOSE i \in 1 .. Len(routes) : routes[i].name = name]
    IN [name |-> name, path |-> r.path, query |-> query]

requiredAuth(route) ==
    LET Auth_requirements == matched(route.path).Auth_requirements
    IN [public |-> Auth_requirements = AuthType.public,
        public_only |-> Auth_requirements = AuthType.public_only,
        private |-> Auth_requirements = AuthType.private]

\* JSON.stringify({ path: to.path, query: to.query }): the text holds the
\* path and the query's own entries.
JSONstringify(path, query) == [path |-> path, tag |-> query.tag]

\* The arguments next is called with: none, or the location to go to.
Through == [kind |-> "through", name |-> "", query |-> NoQuery]
RouteTo(name, query) == [kind |-> "redirect", name |-> name, query |-> query]

\* A variant of AuthChecker that sets the redirect parameter for every path.
AuthCheckerKeepsRoot(to, user, hasOrg) ==
    LET AuthType_required_is == requiredAuth(to)
    IN IF AuthType_required_is.private /\ ~user
       THEN << RouteTo("login", [tag |-> "",
                    redirect |-> JSONstringify(to.path, to.query)]) >>
       ELSE IF AuthType_required_is.public_only /\ user
       THEN << RouteTo("home", NoQuery) >>
       ELSE IF user /\ to.name = "new-user" /\ hasOrg
       THEN << RouteTo("home", NoQuery) >>
       ELSE IF user /\ to.name # "new-user" /\ ~hasOrg
       THEN << RouteTo("new-user", NoQuery) >>
       ELSE << Through >>

\* A variant of AuthChecker that sends new users to new-user from private
\* routes only.
AuthCheckerPrivateOnly(to, user, hasOrg) ==
    LET AuthType_required_is == requiredAuth(to)
    IN IF AuthType_required_is.private /\ ~user
       THEN << RouteTo("login",
                  IF to.path # "/"
                  THEN [tag |-> "", redirect |-> JSONstringify(to.path, to.query)]
                  ELSE NoQuery) >>
       ELSE IF AuthType_required_is.public_only /\ user
       THEN << RouteTo("home", NoQuery) >>
       ELSE IF user /\ to.name = "new-user" /\ hasOrg
       THEN << RouteTo("home", NoQuery) >>
       ELSE IF user /\ AuthType_required_is.private /\ to.name # "new-user"
               /\ ~hasOrg
       THEN << RouteTo("new-user", NoQuery) >>
       ELSE << Through >>

\* A variant of AuthChecker that sends new users to new-user from every
\* route, new-user included.
AuthCheckerLoops(to, user, hasOrg) ==
    LET AuthType_required_is == requiredAuth(to)
    IN IF AuthType_required_is.private /\ ~user
       THEN << RouteTo("login",
                  IF to.path # "/"
                  THEN [tag |-> "", redirect |-> JSONstringify(to.path, to.query)]
                  ELSE NoQuery) >>
       ELSE IF AuthType_required_is.public_only /\ user
       THEN << RouteTo("home", NoQuery) >>
       ELSE IF user /\ to.name = "new-user" /\ hasOrg
       THEN << RouteTo("home", NoQuery) >>
       ELSE IF user /\ ~hasOrg
       THEN << RouteTo("new-user", NoQuery) >>
       ELSE << Through >>

\* AuthChecker(to, from, next), given auth.currentUser and store.state.org:
\* the calls of next it makes, in order.
AuthChecker(to, user, hasOrg) ==
    LET AuthType_required_is == requiredAuth(to)
    IN IF AuthType_required_is.private /\ ~user
       THEN << RouteTo("login",
                  IF to.path # "/"
                  THEN [tag |-> "", redirect |-> JSONstringify(to.path, to.query)]
                  ELSE NoQuery) >>
       ELSE IF AuthType_required_is.public_only /\ user
       THEN << RouteTo("home", NoQuery) >>
       ELSE IF user /\ to.name = "new-user" /\ hasOrg
       THEN << RouteTo("home", NoQuery) >>
       ELSE IF user /\ to.name # "new-user" /\ ~hasOrg
       THEN << RouteTo("new-user", NoQuery) >>
       ELSE << Through >>

InitRoute ==
    /\ notes = InitialNotes
    /\ lastSync = Undefined
    /\ calls = [c \in Calls |-> IdleCall]
    /\ committedTimes = {}
    /\ replay = NoReplay
    /\ applier = IdleApplier
    /\ op = IdleOp
    /\ appointmentID = Undefined
    /\ serverTime = 1
    /\ currentUser \in BOOLEAN
    /\ org \in BOOLEAN
    /\ nav = IdleNav
    /\ orgs = <<>>
    /\ userClaims = [u \in Users |-> NoClaims]
    /\ pendingClaims = {}
    /\ reqs = [r \in Requests |-> IdleRequest]

\* A navigation starts: the router resolves the location and runs the guard.
push(path, tag) ==
    /\ nav.status \in {"off", "through"}
    /\ LET to == resolvePath(path, [tag |-> tag, redirect |-> NoRedirect])
       IN nav' = [status |-> "guard", to |-> to, requested |-> to, hops |-> 0,
                  nexts |-> 0, seen |-> {to}]
    /\ UNCHANGED <<storeVars, applier, retryVars, currentUser, org, orgVars>>

\* router.beforeEach(AuthChecker): the guard runs on the pending location;
\* next() confirms the navigation, next(location) starts over at location.
beforeEach ==
    /\ nav.status = "guard"
    /\ LET called == AuthChecker(nav.to, currentUser, org)
           first == called[1]
       IN /\ Len(called) >= 1
          /\ nav' = IF first.kind = "through"
                    THEN [nav EXCEPT !.status = "through", !.nexts = Len(called)]
                    ELSE LET to == resolveName(first.name, first.query)
                         IN [nav EXCEPT !.to = to, !.hops = @ + 1,
                                        !.nexts = Len(called),
                                        !.seen = @ \cup {to}]
    /\ UNCHANGED <<storeVars, applier, retryVars, currentUser, org, orgVars>>

NextRoute ==
    \/ \E path \in Paths : \E tag \in Tags : push(path, tag)
    \/ beforeEach

SpecRoute == InitRoute /\ [][NextRoute]_vars

----------------------------------------------------------------------------
(* The server's POST /org/create (SpecOrg) *)

\* The values of req.body.org.
OrgIDs == {"acme", "beta"}

\* The records of the orgs collection whose ID field is id:
\* fs.collection("orgs").where("ID", "==", id)
where(id) == {i \in 1 .. Len(orgs) : orgs[i].ID = id}

\* The records a user has created.
createdBy(uid) == {i \in 1 .. Len(orgs) : orgs[i].createdBy = uid}

InitOrg ==
    /\ notes = InitialNotes
    /\ lastSync = Undefined
    /\ calls = [c \in Calls |-> IdleCall]
    /\ committedTimes = {}
    /\ replay = NoReplay
    /\ applier = IdleApplier
    /\ op = IdleOp
    /\ appointmentID = Undefined
    /\ serverTime = 1
    /\ currentUser = FALSE
    /\ org = FALSE
    /\ nav = IdleNav
    /\ orgs = <<>>
    /\ userClaims = [u \in Users |-> NoClaims]
    /\ pendingClaims = {}
    /\ reqs = [r \in Requests |-> IdleRequest]

\* A request arrives with a token that holds the user's claims of this
\* moment.  authzMW((token) => token.org === undefined) lets it on to the
\* handler, which sends its query, or answers 403.
authzMW(r, uid, id) ==
    /\ reqs[r].pc = "idle"
    /\ reqs' = [reqs EXCEPT ![r] =
                  IF userClaims[uid].org = ""
                  THEN [pc |-> "querying", uid |-> uid, org |-> id, status |-> 0]
                  ELSE [pc |-> "responded", uid |-> uid, org |-> id,
                        status |-> 403]]
    /\ UNCHANGED <<storeVars, applier, retryVars, routeVars, orgs, userClaims,
                   pendingClaims>>

\* The query's snapshot arrives: 400 if a record holds the ID, else the
\* handler sends the add.
snapshotGet(r) ==
    /\ reqs[r].pc = "querying"
    /\ reqs' = [reqs EXCEPT ![r] =
                  IF where(reqs[r].org) # {}
                  THEN [@ EXCEPT !.pc = "responded", !.status = 400]
                  ELSE [@ EXCEPT !.pc = "adding"]]
    /\ UNCHANGED <<storeVars, applier, retryVars, routeVars, orgs, userClaims,
                   pendingClaims>>

\* fs.collection("orgs").add({ .. }): the database stores a new record.
orgsAdd(r) ==
    /\ reqs[r].pc = "adding"
    /\ orgs' = Append(orgs, [ID |-> reqs[r].org, createdBy |-> reqs[r].uid])
    /\ reqs' = [reqs EXCEPT ![r].pc = "added"]
    /\ UNCHANGED <<storeVars, applier, retryVars, routeVars, userClaims,
                   pendingClaims>>

\* The add has resolved: the handler calls setClaims, does not await it, and
\* answers 200.
respond200(r) ==
    /\ reqs[r].pc = "added"
    /\ pendingClaims' = pendingClaims \cup {<<reqs[r].uid, reqs[r].org>>}
    /\ reqs' = [reqs EXCEPT ![r].pc = "responded", ![r].status = 200]
    /\ UNCHANGED <<storeVars, applier, retryVars, routeVars, orgs, userClaims>>

\* A setClaims call finishes: the user has the org and admin claims.
setClaims(uid, id) ==
    /\ <<uid, id>> \in pendingClaims
    /\ userClaims' = [userClaims EXCEPT ![uid] = [org |-> id, admin |-> TRUE]]
    /\ pendingClaims' = pendingClaims \ {<<uid, id>>}
    /\ UNCHANGED <<storeVars, applier, retryVars, routeVars, orgs, reqs>>

\* The response has been sent; the server can take another request.
requestDone(r) ==
    /\ reqs[r].pc = "responded"
    /\ reqs' = [reqs EXCEPT ![r] = IdleRequest]
    /\ UNCHANGED <<storeVars, applier, retryVars, routeVars, orgs, userClaims,
                   pendingClaims>>

NextOrg ==
    \/ \E r \in Requests : \E uid \in Users : \E id \in OrgIDs :
            authzMW(r, uid, id)
    \/ \E r \in Requests : snapshotGet(r)
    \/ \E r \in Requests : orgsAdd(r)
    \/ \E r \in Requests : respond200(r)
    \/ \E uid \in Users : \E id \in OrgIDs : setClaims(uid, id)
    \/ \E r \in Requests : requestDone(r)

SpecOrg == InitOrg /\ [][NextOrg]_vars

----------------------------------------------------------------------------
(* Properties of the notes store (Spec) *)

\* C1: lastSync holds a response's time only if that response's notes have
\* already been committed: in every reachable state, also one in which the
\* process stopped between the two commits, lastSync is either still unset or
\* the time of a response whose setNotes commit has happened.
C1_CheckpointAfterNotes ==
    /\ lastSync \in committedTimes \cup {Undefined}
    /\ \A c \in Calls :
        (calls[c].pc = "running" /\ calls[c].step >= 1) =>
            calls[c].res.time \in committedTimes

\* A call stands between its two commits: the notes of its response are in
\* the store and the checkpoint still has an older value.
C1_Witness ==
    \E c \in Calls :
        /\ calls[c].pc = "running"
        /\ calls[c].step = 1
        /\ calls[c].res.notes # EmptyNotes
        /\ lastSync \in Times
        /\ lastSync # calls[c].res.time

\* C2: a sync cycle that was cut after the notes write and before the
\* lastSync write, re-run with the same response, ends with the notes and the
\* lastSync an uninterrupted run ends with: the collection the first notes
\* write had produced (nothing added twice, nothing lost) and res.time.
C2_ReplaySameState ==
    replay.stage = "done" =>
        /\ notes = replay.expect
        /\ lastSync = replay.res.time

\* A re-run has completed whose response carried notes, some of them
\* different from the notes the store was constructed with.
C2_Witness ==
    /\ replay.stage = "done"
    /\ replay.res.notes # EmptyNotes
    /\ \E k \in DOMAIN replay.res.notes : replay.res.notes[k] # InitialNotes[k]
    /\ lastSync = replay.res.time

\* C3: after a successful bootstrap the local collection is exactly the
\* collection of the response (local notes the response lacks are gone).
C3_BootstrapReplacesLocal ==
    [][\A c \in Calls :
          (calls[c].pc = "running" /\ calls'[c].pc = "done") =>
              notes' = calls[c].res.notes]_vars

\* C5: newNote maps note.id to exactly the given note, leaves every entry
\* with another id as it was, and applying the same Add again changes nothing.
C5_AddInsertsOrOverwrites ==
    [][\A n \in Note :
          newNote(n) =>
              /\ n.id \in DOMAIN notes'
              /\ notes'[n.id] = n
              /\ \A k \in NoteIDs \ {n.id} :
                    /\ k \in DOMAIN notes' <=> k \in DOMAIN notes
                    /\ k \in DOMAIN notes => notes'[k] = notes[k]
              /\ addNewNote(notes', n) = notes']_vars

\* Before any bootstrap committed, an entry differs from the one the store
\* was constructed with: a newNote has overwritten it.
C5_Witness ==
    /\ committedTimes = {}
    /\ \E k \in DOMAIN notes : notes[k] # InitialNotes[k]
    /\ \E k \in DOMAIN notes : notes[k] = InitialNotes[k]

\* C6: deleteNote removes the entry of the given id if there is one and
\* leaves every other entry as it was; for an absent id the collection is
\* unchanged, and deleting the same id again changes nothing.
C6_DeleteRemovesOnlyId ==
    [][\A id \in NoteIDs :
          deleteNoteAction(id) =>
              /\ id \notin DOMAIN notes'
              /\ \A k \in NoteIDs \ {id} :
                    /\ k \in DOMAIN notes' <=> k \in DOMAIN notes
                    /\ k \in DOMAIN notes => notes'[k] = notes[k]
              /\ id \notin DOMAIN notes => notes' = notes
              /\ deleteNote(notes', id) = notes']_vars

\* Before any bootstrap committed, exactly one of the two constructed notes
\* is left: a deleteNote has removed the other and only the other.
C6_Witness ==
    /\ committedTimes = {}
    /\ \E k \in NoteIDs : DOMAIN notes = {k} /\ notes[k] = InitialNotes[k]

\* C8: when the response has ok false, loadAllNotes ends with the error
\* thrown and the step changes neither notes nor lastSync; a call holding a
\* failure response never reaches a commit.
C8_FailedFetchMutatesNothing ==
    [][\A c \in Calls :
          (/\ calls[c].pc = "awaiting"
           /\ calls'[c].pc \in {"running", "failed"}
           /\ ~calls'[c].res.ok) =>
              /\ calls'[c].pc = "failed"
              /\ notes' = notes
              /\ lastSync' = lastSync]_vars

\* A call has failed after an earlier one had advanced the checkpoint.
C8_Witness ==
    \E c \in Calls :
        /\ calls[c].pc = "failed"
        /\ calls[c].res = FailResponse
        /\ lastSync \in Times


----------------------------------------------------------------------------
(* Properties of the event applier (SpecApply) *)

\* C4: applying an ordered list of Add, Delete, Edit and Sync events to a
\* collection and then applying the same list to the result gives the
\* collection that applying the list once gives.
C4_ApplyTwiceIsApplyOnce ==
    applier.stage = "done" => applier.cur = applier.once

\* Both passes are over; the list edits an id and then adds it, and it
\* changed the collection.
C4_Witness ==
    /\ applier.stage = "done"
    /\ Len(applier.events) = 2
    /\ applier.events[1].type = "edit"
    /\ applier.events[2].type = "add"
    /\ applier.events[1].id = applier.events[2].note.id
    /\ "value" \in DOMAIN applier.events[1].patch
    /\ applier.events[1].patch.value # applier.events[2].note.value
    /\ applier.once # applier.c0

\* C7: an Edit applied when its id is absent leaves the collection as it
\* is; after Delete(id) an Edit(id) finds the id absent and leaves it absent.
C7_NoResurrection ==
    [][ApplyEdit =>
          /\ (CurrentEvent.id \notin DOMAIN applier.cur =>
                  applier'.cur = applier.cur)
          /\ ((applier.idx > 1 /\ applier.events[applier.idx - 1].type = "del"
               /\ applier.events[applier.idx - 1].id = CurrentEvent.id) =>
                  CurrentEvent.id \notin DOMAIN applier'.cur)]_vars

\* The list deleted a note that was present and then edited the same id with
\* a non-empty patch: the id is absent after the Edit.
C7_Witness ==
    /\ applier.stage = "first"
    /\ applier.idx = 3
    /\ applier.events[1].type = "del"
    /\ applier.events[2].type = "edit"
    /\ applier.events[1].id = applier.events[2].id
    /\ applier.events[2].patch # EmptyNotes
    /\ applier.events[1].id \in DOMAIN applier.c0
    /\ applier.events[1].id \notin DOMAIN applier.cur


----------------------------------------------------------------------------
(* Properties of the retry protocol (SpecRetry) *)

C10_EveryFailurePrompts ==
    /\ op.failures = op.prompts
    /\ op.pc # "rejected"

----------------------------------------------------------------------------
(* Properties of abandoned, retried and local actions (SpecRetry) *)

\* A step of an action that calls the API.
RemoteStep == op' # op /\ (op.name \in RemoteOps \/ op'.name \in RemoteOps)

\* The step in which such an action receives an ok response.
OkStep == op.pc = "inflight" /\ op'.pc = "returned"

\* C11: when an attempt has failed and the user declines the retry, the
\* action returns false and raises no error, and no step of the action but an
\* ok response changes notes, appointmentID or lastSync, so the store is as
\* it was when the action started; book returns true exactly when an attempt
\* received an ok response, and appointmentID is set in that step alone.
C11_AbandonLeavesStore ==
    [][/\ (op.pc = "prompt" /\ op' # op /\ op'.pc # "inflight")
            => (op'.pc = "returned" /\ op'.result = "false")
       /\ (RemoteStep /\ ~OkStep)
            => UNCHANGED <<notes, appointmentID, lastSync>>
       /\ (op.name = "book" /\ op' # op /\ op'.pc = "returned")
            => (op'.result = "true" <=> op'.outcome = "ok")
       /\ appointmentID' # appointmentID
            => (op.name = "book" /\ OkStep /\ op'.result = "true")]_vars

\* A book that failed and was abandoned after an earlier booking: it has
\* returned false and the earlier appointmentID is still there.
C11_Witness ==
    /\ op.name = "book"
    /\ op.pc = "returned"
    /\ op.result = "false"
    /\ op.failures >= 1
    /\ appointmentID # Undefined

\* C12: one dispatched action has at most one request outstanding at any
\* time, and it sends a retry request only from the prompt, after every
\* earlier attempt has failed and the user has confirmed.
C12_SingleOutstanding ==
    /\ [](op.requests <= 1)
    /\ [][(op'.requests > op.requests /\ op.attempts >= 1)
            => /\ op.pc = "prompt"
               /\ op.requests = 0
               /\ op.failures = op.attempts
               /\ op'.attempts = op.attempts + 1]_vars

\* A confirmed second retry of book is outstanding, alone.
C12_Witness ==
    /\ op.name = "book"
    /\ op.pc = "inflight"
    /\ op.attempts = 3
    /\ op.failures = 2
    /\ op.requests = 1

C16_LocalOpsBypassServer ==
    /\ [](op.name \in LocalOps
            => /\ op.pc = "returned"
               /\ op.requests = 0
               /\ op.attempts = 0
               /\ op.prompts = 0)
    /\ [][(op.pc = "idle" /\ op'.name = "newNote")
            => notes' = addNewNote(notes, op'.arg)]_vars
    /\ [][(op.pc = "idle" /\ op'.name = "deleteNote")
            => notes' = deleteNote(notes, op'.arg)]_vars

\* deleteNote has returned and the note is gone, no request made.
C16_Witness ==
    /\ op.name = "deleteNote"
    /\ op.pc = "returned"
    /\ op.arg \notin DOMAIN notes
    /\ op.requests = 0

\* C17: a create or delete that the server has not acknowledged does not
\* stay in the notes: an action that ends without an ok response leaves the
\* collection as it was before the mutation.
C17_UnacknowledgedChangeUndone ==
    [][(op.pc = "idle" /\ op'.name \in LocalOps /\ op'.pc = "returned"
            /\ op'.outcome # "ok")
            => notes' = notes]_vars

----------------------------------------------------------------------------
(* Properties of concurrent syncs (Spec) *)

\* C13: lastSync is monotonically non-decreasing: no step of the store, in
\* particular no commit of a sync whose response arrives after a later
\* sync's response, makes lastSync smaller than it was.
C13_LastSyncMonotonic == [][lastSync' >= lastSync]_vars

\* The calls between sending their request and their last commit.
InSync == {c \in Calls : calls[c].pc \in {"awaiting", "running"}}

\* C14: sync operations are serialized: a second sync does not start while
\* another one is between its fetch and its last commit, so at most one call
\* is in its fetch-and-commit sequence at any time.
C14_SyncsSerialized == Cardinality(InSync) <= 1

----------------------------------------------------------------------------
(* Properties of the navigation guard (SpecRoute) *)

\* The guard is looking at a private route and no user is logged in.
PrivateWithoutUser ==
    /\ nav.status = "guard"
    /\ ~currentUser
    /\ requiredAuth(nav.to).private

\* C18: with no user logged in the guard never lets a navigation through to
\* a private route: it redirects to login, and the redirect's query holds the
\* requested path and query as `redirect` exactly when the path is not "/".
C18_PrivateNeedsLogin ==
    /\ []((nav.status = "through" /\ ~currentUser)
            => ~requiredAuth(nav.to).private)
    /\ [][PrivateWithoutUser
            => /\ nav'.status = "guard"
               /\ nav'.to.name = "login"
               /\ nav'.to.query.tag = ""
               /\ nav'.to.query.redirect =
                    IF nav.to.path # "/"
                    THEN [path |-> nav.to.path, tag |-> nav.to.query.tag]
                    ELSE NoRedirect]_vars

\* A logged-out request for /view with a query has ended at login, the path
\* and the query in the redirect parameter.
C18_Witness ==
    /\ nav.status = "through"
    /\ ~currentUser
    /\ nav.requested.path = "/view"
    /\ nav.requested.query.tag = "a"
    /\ nav.to.name = "login"
    /\ nav.to.query.redirect = [path |-> "/view", tag |-> "a"]

\* C19: a logged-in user without an organization is let through to new-user
\* and to no other route, whatever route was asked for; a logged-in user with
\* an organization is never let through to new-user and is redirected from
\* it to home.
C19_NewUserPolicy ==
    /\ []((nav.status = "through" /\ currentUser)
            => (nav.to.name = "new-user" <=> ~org))
    /\ [][(nav.status = "guard" /\ currentUser /\ org
                /\ nav.to.name = "new-user")
            => (nav'.status = "guard" /\ nav'.to.name = "home")]_vars
    /\ [][(nav.status = "guard" /\ currentUser /\ ~org
                /\ ~requiredAuth(nav.to).public_only
                /\ nav.to.name # "new-user")
            => (nav'.status = "guard" /\ nav'.to.name = "new-user")]_vars

\* A new user who asked for the public catch-all route has ended at new-user.
C19_Witness ==
    /\ nav.status = "through"
    /\ currentUser
    /\ ~org
    /\ nav.requested.name = "404"
    /\ nav.to.name = "new-user"

\* C20: every run of the guard calls next exactly once, and a chain of
\* redirects never comes back to a location it has been at and is at most two
\* redirects long, so it ends with a route let through.
C20_RedirectsTerminate ==
    /\ [](nav.hops <= 2)
    /\ [][nav' # nav /\ nav.status = "guard"
            => /\ nav'.nexts = 1
               /\ (nav'.status = "guard" => nav'.to \notin nav.seen)
               /\ nav'.status \in {"guard", "through"}]_vars

\* The longest chain: a new user asked for login, was sent to home, then to
\* new-user, and is let through.
C20_Witness ==
    /\ nav.status = "through"
    /\ nav.hops = 2
    /\ nav.nexts = 1
    /\ nav.requested.name = "login"
    /\ nav.to.name = "new-user"

----------------------------------------------------------------------------
(* Properties of POST /org/create (SpecOrg) *)

\* C21: organization IDs are unique: at most one record of the orgs
\* collection holds a given ID, and a request whose ID a record already
\* holds adds no record and, when it is answered, is answered 400.
C21_OrgIDsUnique ==
    /\ [](\A id \in OrgIDs : Cardinality(where(id)) <= 1)
    /\ [][\A r \in Requests :
            (reqs[r].pc \in {"querying", "adding"} /\ reqs'[r] # reqs[r]
                /\ where(reqs[r].org) # {})
            => /\ orgs' = orgs
               /\ reqs'[r].pc = "responded"
               /\ reqs'[r].status = 400]_vars

\* C22: a user creates at most one organization record, and a request is
\* answered 200 only when the user's org and admin claims are set.
C22_OneOrgPerUser ==
    /\ \A uid \in Users : Cardinality(createdBy(uid)) <= 1
    /\ \A r \in Requests :
            (reqs[r].pc = "responded" /\ reqs[r].status = 200)
            => userClaims[reqs[r].uid] = [org |-> reqs[r].org, admin |-> TRUE]

=============================================================================
